---- MODULE Spec2Model ----
(***************************************************************************)
(* Best-basis wavelet packet selection and reconstruction:                 *)
(*   src/src/binarytree.py (1D, two sub-bands per node) and                *)
(*   src/src/quadtree.py   (2D, four sub-bands per node).                  *)
(*                                                                         *)
(* Numbers are fixed point: the integer n stands for n / 2^FracBits.       *)
(* Tree positions keep the code's 0-based level and index fields; TLA+     *)
(* sequences are 1-based, so Nodes[l][p] of the code is Nodes[l+1][p+1].   *)
(* pywt is outside the repository; it is modelled by the unnormalised Haar *)
(* transform, an exactly invertible transform that halves every dimension  *)
(* and rejects arrays whose shapes do not fit.                             *)
(***************************************************************************)
EXTENDS Integers, Sequences, FiniteSets, TLC

\* ------------------------------------------------------------ bounds ----
MaxBits  == 4      \* a signal holds at most 2^MaxBits samples
MaxTheta == 1      \* thresholds range over 0 .. MaxTheta
FracBits == 1      \* fractional bits of the fixed-point numbers
MaxExp   == 2      \* cost-function inputs: magnitudes 2^0 .. 2^MaxExp
MaxLen   == 3      \* cost-function inputs: arrays of at most MaxLen entries
MaxDrop  == 1      \* a caller of iwp/iwp2 may omit one of the MaxDrop first
                   \* or MaxDrop last nodes of the basis

VARIABLES b, level, S, costf, pc, Nodes, calls, Result,
          variant, Work, merged, printed, err, R, cp
vars == <<b, level, S, costf, pc, Nodes, calls, Result,
          variant, Work, merged, printed, err, R, cp>>

\* ----------------------------------------------------------- helpers ----
RECURSIVE Pow(_, _)
Pow(x, n) == IF n = 0 THEN 1 ELSE x * Pow(x, n - 1)

Abs(x) == IF x < 0 THEN -x ELSE x

RECURSIVE SumSeq(_)
SumSeq(s) == IF s = <<>> THEN 0 ELSE Head(s) + SumSeq(Tail(s))

RECURSIVE Flatten(_)
Flatten(M) == IF M = <<>> THEN <<>> ELSE Head(M) \o Flatten(Tail(M))

\* ------------------------------------------- transform primitive (pywt) --
\* pywt.dwt: one array into (Cl, Cr), each of half the length.
dwt(X) ==
    LET n == Len(X) \div 2
    IN  << [i \in 1..n |-> X[2*i - 1] + X[2*i]],
           [i \in 1..n |-> X[2*i - 1] - X[2*i]] >>

\* pywt.idwt(cA, cD, correct_size=True) raises ValueError unless cA is as
\* long as cD or one entry longer.
idwt_ok(cA, cD) == Len(cA) = Len(cD) \/ Len(cA) = Len(cD) + 1

idwt(cA, cD) ==
    [k \in 1..(2 * Len(cD)) |->
        LET i == (k + 1) \div 2
        IN  IF k % 2 = 1 THEN (cA[i] + cD[i]) \div 2
                         ELSE (cA[i] - cD[i]) \div 2]

Shape(C) == <<Len(C)>>

\* pywt.dwt2: one matrix into (CA, (CH, CV, CD)), each of half the height
\* and half the width.
Band2(M, sr, sc) ==
    LET h == Len(M) \div 2
        w == Len(M[1]) \div 2
    IN  [i \in 1..h |-> [j \in 1..w |->
            M[2*i - 1][2*j - 1] + sc * M[2*i - 1][2*j]
            + sr * M[2*i][2*j - 1] + sr * sc * M[2*i][2*j]]]

dwt2(M) == << Band2(M, 1, 1), Band2(M, -1, 1), Band2(M, 1, -1), Band2(M, -1, -1) >>

Shape2(M) == IF M = <<>> THEN <<0, 0>> ELSE <<Len(M), Len(M[1])>>

\* pywt.idwt2 raises ValueError unless the four arrays have one shape.
idwt2_ok(CA, CH, CV, CD) ==
    /\ Shape2(CH) = Shape2(CA)
    /\ Shape2(CV) = Shape2(CA)
    /\ Shape2(CD) = Shape2(CA)

idwt2(CA, CH, CV, CD) ==
    [r \in 1..(2 * Len(CA)) |-> [c \in 1..(2 * Len(CA[1])) |->
        LET i  == (r + 1) \div 2
            j  == (c + 1) \div 2
            sr == IF r % 2 = 1 THEN 1 ELSE -1
            sc == IF c % 2 = 1 THEN 1 ELSE -1
        IN  (CA[i][j] + sr * CH[i][j] + sc * CV[i][j] + sr * sc * CD[i][j]) \div 4]]

\* ------------------------------------------------------------- node -----
\* node.Node(C, level, index); cost and best are written by mark.
Node(C, l, i) == [C |-> C, level |-> l, index |-> i, cost |-> 0, best |-> 0]

Coord(n) == <<n.level, n.index>>

\* node.compare_low_level_first: ascending level, then ascending index.
compare_low_level_first(x, y) ==
    IF x.level # y.level THEN (IF x.level < y.level THEN -1 ELSE 1)
    ELSE IF x.index # y.index THEN (IF x.index < y.index THEN -1 ELSE 1)
    ELSE 0

\* node.compare_high_level_first: descending level, then ascending index.
compare_high_level_first(x, y) ==
    IF x.level # y.level THEN (IF x.level > y.level THEN -1 ELSE 1)
    ELSE IF x.index # y.index THEN (IF x.index < y.index THEN -1 ELSE 1)
    ELSE 0

\* sorted(seq, cmp=...): a stable sort (insertion after the last element
\* that does not compare greater).
RECURSIVE InsertSorted(_, _, _)
InsertSorted(s, x, high) ==
    LET c(u, v) == IF high THEN compare_high_level_first(u, v)
                           ELSE compare_low_level_first(u, v)
    IN  IF s = <<>> THEN <<x>>
        ELSE IF c(s[Len(s)], x) <= 0 THEN Append(s, x)
        ELSE Append(InsertSorted(SubSeq(s, 1, Len(s) - 1), x, high), s[Len(s)])

RECURSIVE sorted(_, _)
sorted(s, high) ==
    IF s = <<>> THEN <<>>
    ELSE InsertSorted(sorted(SubSeq(s, 1, Len(s) - 1), high), s[Len(s)], high)

\* ----------------------------------------------------- cost functions ---
\* floor(log2(n)) for n >= 1; exact on the powers of two.
RECURSIVE Log2(_)
Log2(n) == IF n <= 1 THEN 0 ELSE 1 + Log2(n \div 2)

IsDyadic(n) == n = 0 \/ Pow(2, Log2(Abs(n))) = Abs(n)

\* binarytree.cost_threshold(C, threshold) returns this closure.
RECURSIVE cost_fixed_threshold(_, _)
cost_fixed_threshold(C, threshold) ==
    IF C = <<>> THEN 0
    ELSE cost_fixed_threshold(SubSeq(C, 1, Len(C) - 1), threshold)
         + (IF Abs(C[Len(C)]) > threshold THEN 1 ELSE 0)

\* cost_shannon with the sign of the sum turned round.
RECURSIVE cost_shannon_plus(_)
cost_shannon_plus(C) ==
    IF C = <<>> THEN 0
    ELSE LET x == C[Len(C)]
             rest == cost_shannon_plus(SubSeq(C, 1, Len(C) - 1))
         IN  IF x # 0 THEN rest + x * x * (Log2(Abs(x)) - FracBits)
                      ELSE rest

\* binarytree.cost_shannon, in units of 4^-FracBits:
\* c*c*log2(|c|) with c = n / 2^FracBits is n*n*(log2(n) - FracBits) / 4^FracBits.
RECURSIVE cost_shannon(_)
cost_shannon(C) ==
    IF C = <<>> THEN 0
    ELSE LET x == C[Len(C)]
             rest == cost_shannon(SubSeq(C, 1, Len(C) - 1))
         IN  IF x # 0 THEN rest - x * x * (Log2(Abs(x)) - FracBits)
                      ELSE rest

\* A cost function of the caller's own: the plain sum of the coefficients.
cost_sum(C) == SumSeq(C)

\* cost(Node.C) for the cost function handed to wp / mark.
cost(f, C) ==
    CASE f.kind = "threshold" -> cost_fixed_threshold(C, f.theta)
      [] f.kind = "shannon"   -> cost_shannon(C)
      [] OTHER                -> cost_sum(C)

\* costf(Node.C) in quadtree.py: the functions of module cost, over every
\* entry of the matrix.
costf2(f, C) == cost(f, Flatten(C))

\* ---------------------------------------------------- binarytree.collect
\* Both children labelled with the index of the left one.
child_index_left(p, k) == 2 * p

\* The index given to child k (0: Cl, 1: Cr) of parent p.
child_index(p, k) == 2 * p + k

RECURSIVE collect_levels(_, _, _)
collect_levels(acc, l, lv) ==
    IF l > lv - 2 THEN acc
    ELSE LET Parents == acc.Nodes[l + 1]
             Childs  == [q \in 1..(2 * Len(Parents)) |->
                            LET p == (q - 1) \div 2
                                k == (q - 1) % 2
                            IN  Node(dwt(Parents[p + 1].C)[k + 1], l + 1,
                                     child_index(p, k))]
             applied == [p \in 1..Len(Parents) |-> <<l, p - 1>>]
         IN  collect_levels([Nodes |-> Append(acc.Nodes, Childs),
                             calls |-> acc.calls \o applied], l + 1, lv)

\* Returns the tree and, beside it, the arrays dwt was applied to, in call
\* order (<<-1, 0>> is the signal itself).
collect(Sig, lv) ==
    LET first == dwt(Sig)
    IN  collect_levels([Nodes |-> << <<Node(first[1], 0, 0), Node(first[2], 0, 1)>> >>,
                        calls |-> << <<-1, 0>> >>], 0, lv)

\* ------------------------------------------------------ quadtree.collect
RECURSIVE collect2_levels(_, _, _)
collect2_levels(acc, l, lv) ==
    IF l > lv - 2 THEN acc
    ELSE LET Parents == acc.Nodes[l + 1]
             Childs  == [q \in 1..(4 * Len(Parents)) |->
                            LET p == (q - 1) \div 4
                                k == (q - 1) % 4
                            IN  Node(dwt2(Parents[p + 1].C)[k + 1], l + 1, 4 * p + k)]
             applied == [p \in 1..Len(Parents) |-> <<l, p - 1>>]
         IN  collect2_levels([Nodes |-> Append(acc.Nodes, Childs),
                              calls |-> acc.calls \o applied], l + 1, lv)

collect2(Sig, lv) ==
    LET first == dwt2(Sig)
    IN  collect2_levels([Nodes |-> << <<Node(first[1], 0, 0), Node(first[2], 0, 1),
                                        Node(first[3], 0, 2), Node(first[4], 0, 3)>> >>,
                         calls |-> << <<-1, 0>> >>], 0, lv)

\* --------------------------------------------------------- binarytree.mark
\* The leaf loop without its assignment to Node.best.
mark_leaf_no_best(n, f) ==
    LET c == cost(f, n.C) IN [n EXCEPT !.cost = c]

\* The interior loop without the comparison with the children.
mark_node_own(n, cc, f) ==
    LET c == cost(f, n.C) IN [n EXCEPT !.cost = c, !.best = c]

mark_leaf(n, f) ==
    LET c == cost(f, n.C) IN [n EXCEPT !.cost = c, !.best = c]

mark_node(n, cc, f) ==
    LET c == cost(f, n.C)
    IN  [n EXCEPT !.cost = c, !.best = IF c <= cc THEN c ELSE cc]

RECURSIVE mark_levels(_, _, _)
mark_levels(Ns, l, f) ==
    IF l < 0 THEN Ns
    ELSE LET row == [q \in 1..Len(Ns[l + 1]) |->
                        mark_node(Ns[l + 1][q],
                                  Ns[l + 2][2 * q - 1].best + Ns[l + 2][2 * q].best, f)]
         IN  mark_levels([Ns EXCEPT ![l + 1] = row], l - 1, f)

mark(Ns, f) ==
    LET last   == Len(Ns)
        leaves == [q \in 1..Len(Ns[last]) |-> mark_leaf(Ns[last][q], f)]
    IN  mark_levels([Ns EXCEPT ![last] = leaves], Len(Ns) - 2, f)

\* ----------------------------------------------------------- quadtree.mark
\* The comparison of line 99 turned round.
mark2_node_dearer(n, cc, f) ==
    LET c == costf2(f, n.C)
    IN  [n EXCEPT !.cost = c, !.best = IF c >= cc THEN c ELSE cc]

mark2_leaf(n, f) ==
    LET c == costf2(f, n.C) IN [n EXCEPT !.cost = c, !.best = c]

mark2_node(n, cc, f) ==
    LET c == costf2(f, n.C)
    IN  [n EXCEPT !.cost = c, !.best = IF c <= cc THEN c ELSE cc]

RECURSIVE mark2_levels(_, _, _)
mark2_levels(Ns, l, f) ==
    IF l < 0 THEN Ns
    ELSE LET row == [q \in 1..Len(Ns[l + 1]) |->
                        mark2_node(Ns[l + 1][q],
                                   Ns[l + 2][4 * q - 3].best + Ns[l + 2][4 * q - 2].best
                                   + Ns[l + 2][4 * q - 1].best + Ns[l + 2][4 * q].best, f)]
         IN  mark2_levels([Ns EXCEPT ![l + 1] = row], l - 1, f)

mark2(Ns, f) ==
    LET last   == Len(Ns)
        leaves == [q \in 1..Len(Ns[last]) |-> mark2_leaf(Ns[last][q], f)]
    IN  mark2_levels([Ns EXCEPT ![last] = leaves], Len(Ns) - 2, f)

\* ----------------------------------------------------------- traverse ----
\* The Result buffer and whether Nodes[i][j] was indexed out of range
\* (IndexError) on the way.
\* A tie between a node and its children decided for the children.
select_node_deeper(n) ==
    /\ n.best = n.cost
    /\ \/ n.level + 1 >= Len(Nodes)
       \/ n.cost < Nodes[n.level + 2][2 * n.index + 1].best
                    + Nodes[n.level + 2][2 * n.index + 2].best

select_node(n) == n.best = n.cost

RECURSIVE traverse(_, _, _)
traverse(n, Ns, Res) ==
    IF Res.err THEN Res
    ELSE IF select_node(n) THEN [Res EXCEPT !.out = Append(Res.out, n)]
    ELSE LET i == n.level + 1
             j == 2 * n.index
         IN  IF i + 1 > Len(Ns) THEN [Res EXCEPT !.err = TRUE]
             ELSE traverse(Ns[i + 1][j + 2], Ns, traverse(Ns[i + 1][j + 1], Ns, Res))

\* <= in the place of == at line 115.
select_node2_le(n) == n.best <= n.cost

select_node2(n) == n.best = n.cost

RECURSIVE traverse2(_, _, _)
traverse2(n, Ns, Res) ==
    IF Res.err THEN Res
    ELSE IF select_node2(n) THEN [Res EXCEPT !.out = Append(Res.out, n)]
    ELSE LET i == n.level + 1
             j == 4 * n.index
         IN  IF i + 1 > Len(Ns) THEN [Res EXCEPT !.err = TRUE]
             ELSE traverse2(Ns[i + 1][j + 4], Ns,
                    traverse2(Ns[i + 1][j + 3], Ns,
                      traverse2(Ns[i + 1][j + 2], Ns,
                        traverse2(Ns[i + 1][j + 1], Ns, Res))))

EmptyResult == [out |-> <<>>, err |-> FALSE]

\* wp, lines 42-45: both level-0 traversals, then the sort.
wp_traverse(Ns) ==
    LET r == traverse(Ns[1][2], Ns, traverse(Ns[1][1], Ns, EmptyResult))
    IN  [r EXCEPT !.out = sorted(r.out, FALSE)]

\* wp2, lines 42-47.
wp2_traverse(Ns) ==
    LET r == traverse2(Ns[1][4], Ns,
               traverse2(Ns[1][3], Ns,
                 traverse2(Ns[1][2], Ns, traverse2(Ns[1][1], Ns, EmptyResult))))
    IN  [r EXCEPT !.out = sorted(r.out, FALSE)]

\* ------------------------------------------------------ binarytree.iwp ---
\* One pass of the while loop body (lines 92-98): the list after the pass,
\* the nodes whose arrays went to pywt.idwt, and whether idwt raised.
\* The merged node keeps the index of its first child.
iwp_parent_index_same(n) == n.index

iwp_parent_index(n) == n.index \div 2

iwp_rest(Ns) == SubSeq(Ns, 3, Len(Ns))

\* The pass without the sort of line 92.
iwp_pass_unsorted(W) ==
    LET Ns    == W
        Node1 == Ns[1]
        Node2 == Ns[2]
    IN  IF idwt_ok(Node1.C, Node2.C)
        THEN [ok |-> TRUE, used |-> <<Node1, Node2>>,
              Nodes |-> Append(iwp_rest(Ns),
                               Node(idwt(Node1.C, Node2.C), Node1.level - 1,
                                    iwp_parent_index(Node1)))]
        ELSE [ok |-> FALSE, used |-> <<Node1, Node2>>, Nodes |-> Ns]

iwp_pass(W) ==
    LET Ns    == sorted(W, TRUE)
        Node1 == Ns[1]
        Node2 == Ns[2]
    IN  IF idwt_ok(Node1.C, Node2.C)
        THEN [ok |-> TRUE, used |-> <<Node1, Node2>>,
              Nodes |-> Append(iwp_rest(Ns),
                               Node(idwt(Node1.C, Node2.C), Node1.level - 1,
                                    iwp_parent_index(Node1)))]
        ELSE [ok |-> FALSE, used |-> <<Node1, Node2>>, Nodes |-> Ns]

\* What iwp writes out before the ValueError of idwt leaves it: nothing,
\* the call at line 95 is not inside a try block.
iwp_report(used) == <<>>

\* ------------------------------------------------------ quadtree.iwp2 ---
\* heapq keeps the list so that Nodes[0] is least in the order of Node
\* objects (deepest level first, then ascending index); the model keeps the
\* whole list in that order, so heappop is Head and heappush an insertion.
heapify(W) == sorted(W, TRUE)

heappush(H, x) == InsertSorted(H, x, TRUE)

iwp2_parent_index(n) == n.index \div 4

iwp2_pass(H) ==
    LET Node1 == H[1]
        Node2 == H[2]
        Node3 == H[3]
        Node4 == H[4]
        rest  == SubSeq(H, 5, Len(H))
    IN  IF idwt2_ok(Node1.C, Node2.C, Node3.C, Node4.C)
        THEN [ok |-> TRUE, used |-> <<Node1, Node2, Node3, Node4>>,
              Nodes |-> heappush(rest,
                                 Node(idwt2(Node1.C, Node2.C, Node3.C, Node4.C),
                                      Node1.level - 1, iwp2_parent_index(Node1)))]
        ELSE [ok |-> FALSE, used |-> <<Node1, Node2, Node3, Node4>>, Nodes |-> rest]

\* Lines 152-159: level, index and shape of the four nodes.
iwp2_report(used) ==
    [k \in 1..Len(used) |-> <<used[k].level, used[k].index, Shape2(used[k].C)>>]

\* ------------------------------------------------------------ inputs ----
\* A signal that is one unit (2^-FracBits) on the samples i .. j-1 and 0
\* elsewhere; all zero when j <= i.
Box1(n, i, j) == [k \in 1..n |-> IF i <= k /\ k < j THEN 1 ELSE 0]

Signals1(n) == {Box1(n, i, j) : i \in 1..n, j \in 1..(n + 1)}

\* An image that is one unit on the rows r1 .. r2-1 of the columns
\* c1 .. c2-1 and 0 elsewhere.
Box2(n, r1, r2, c1, c2) ==
    [r \in 1..n |-> [c \in 1..n |->
        IF r1 <= r /\ r < r2 /\ c1 <= c /\ c < c2 THEN 1 ELSE 0]]

Signals2(n) ==
    {Box2(n, r[1], r[2], c[1], c[2]) :
        r \in (1..n) \X (1..(n + 1)), c \in (1..n) \X (1..(n + 1))}

CostFns ==
    {[kind |-> "threshold", theta |-> t] : t \in 0..MaxTheta}
    \cup {[kind |-> "shannon", theta |-> 0], [kind |-> "sum", theta |-> 0]}

\* cost_shannon is exact in the model where every coefficient is 0 or a
\* signed power of two.
DyadicTree(Ns, flat) ==
    \A l \in 1..Len(Ns) : \A q \in 1..Len(Ns[l]) :
        LET C == IF flat THEN Ns[l][q].C ELSE Flatten(Ns[l][q].C)
        IN  \A k \in 1..Len(C) : IsDyadic(C[k])

Idle ==
    /\ Nodes = <<>> /\ calls = <<>> /\ Result = <<>>
    /\ variant = "none" /\ Work = <<>> /\ merged = <<>> /\ printed = <<>>
    /\ err = "" /\ R = <<>> /\ cp = 0

Init ==
    /\ b \in {2, 4}
    /\ level \in 1..MaxBits
    /\ b = 4 => 2 * level <= MaxBits
    /\ S \in (IF b = 2 THEN Signals1(Pow(2, level)) ELSE Signals2(Pow(2, level)))
    /\ costf \in CostFns
    /\ costf.kind = "shannon" =>
         IF b = 2 THEN DyadicTree(collect(S, level).Nodes, TRUE)
                  ELSE DyadicTree(collect2(S, level).Nodes, FALSE)
    /\ pc = "start"
    /\ Idle

\* ----------------------------------------------------------- actions ----
\* wp, line 37 / wp2, line 37.
WpCollect ==
    /\ pc = "start" /\ b = 2
    /\ Nodes' = collect(S, level).Nodes
    /\ calls' = collect(S, level).calls
    /\ pc' = "collected"
    /\ UNCHANGED <<b, level, S, costf, Result, variant, Work, merged, printed, err, R, cp>>

Wp2Collect ==
    /\ pc = "start" /\ b = 4
    /\ Nodes' = collect2(S, level).Nodes
    /\ calls' = collect2(S, level).calls
    /\ pc' = "collected"
    /\ UNCHANGED <<b, level, S, costf, Result, variant, Work, merged, printed, err, R, cp>>

\* wp, line 39 / wp2, line 39.
WpMark ==
    /\ pc = "collected" /\ b = 2
    /\ Nodes' = mark(Nodes, costf)
    /\ pc' = "marked"
    /\ UNCHANGED <<b, level, S, costf, calls, Result, variant, Work, merged, printed, err, R, cp>>

Wp2Mark ==
    /\ pc = "collected" /\ b = 4
    /\ Nodes' = mark2(Nodes, costf)
    /\ pc' = "marked"
    /\ UNCHANGED <<b, level, S, costf, calls, Result, variant, Work, merged, printed, err, R, cp>>

\* wp, lines 42-45 / wp2, lines 42-47.
WpTraverse ==
    /\ pc = "marked" /\ b = 2
    /\ LET r == wp_traverse(Nodes)
       IN  /\ Result' = r.out
           /\ err' = IF r.err THEN "IndexError" ELSE ""
           /\ pc' = IF r.err THEN "aborted" ELSE "returned"
    /\ UNCHANGED <<b, level, S, costf, Nodes, calls, variant, Work, merged, printed, R, cp>>

Wp2Traverse ==
    /\ pc = "marked" /\ b = 4
    /\ LET r == wp2_traverse(Nodes)
       IN  /\ Result' = r.out
           /\ err' = IF r.err THEN "IndexError" ELSE ""
           /\ pc' = IF r.err THEN "aborted" ELSE "returned"
    /\ UNCHANGED <<b, level, S, costf, Nodes, calls, variant, Work, merged, printed, R, cp>>

\* The caller hands the basis to iwp / iwp2: as wp returned it, or with one
\* node left out (an incomplete sibling group).  The tree was local to wp;
\* only the nodes of the basis are still referenced.
Without(s, k) == SubSeq(s, 1, k - 1) \o SubSeq(s, k + 1, Len(s))

Droppable(s) ==
    {k \in 1..Len(s) : k <= MaxDrop \/ k > Len(s) - MaxDrop}

IwpCall ==
    /\ pc = "returned" /\ b = 2
    /\ \/ variant' = "basis" /\ Work' = Result
       \/ \E k \in Droppable(Result) :
             variant' = "omitted" /\ Work' = Without(Result, k)
    /\ pc' = "iwp"
    /\ Nodes' = <<>>
    /\ UNCHANGED <<b, level, S, costf, calls, Result, merged, printed, err, R, cp>>

\* iwp2, line 142.
Iwp2Call ==
    /\ pc = "returned" /\ b = 4
    /\ \/ variant' = "basis" /\ Work' = heapify(Result)
       \/ \E k \in Droppable(Result) :
             variant' = "omitted" /\ Work' = heapify(Without(Result, k))
    /\ pc' = "iwp"
    /\ Nodes' = <<>>
    /\ UNCHANGED <<b, level, S, costf, calls, Result, merged, printed, err, R, cp>>

\* iwp, lines 91-98: one pass of the loop.
IwpStep ==
    /\ pc = "iwp" /\ b = 2 /\ Len(Work) # 1
    /\ LET r == iwp_pass(Work)
       IN  /\ merged' = [k \in 1..Len(r.used) |->
                           <<r.used[k].level, r.used[k].index, Shape(r.used[k].C)>>]
           /\ Work' = r.Nodes
           /\ IF r.ok
              THEN /\ pc' = "iwp"
                   /\ UNCHANGED <<err, printed>>
              ELSE /\ pc' = "aborted"
                   /\ err' = "ValueError"
                   /\ printed' = iwp_report(r.used)
    /\ UNCHANGED <<b, level, S, costf, Nodes, calls, Result, variant, R, cp>>

\* iwp, line 99.
IwpReturn ==
    /\ pc = "iwp" /\ b = 2 /\ Len(Work) = 1
    /\ R' = Work[1].C
    /\ pc' = "done"
    /\ UNCHANGED <<b, level, S, costf, Nodes, calls, Result, variant, Work, merged, printed, err, cp>>

\* iwp2, lines 143-163: one pass of the loop; heappop on an empty heap
\* raises IndexError.
Iwp2Step ==
    /\ pc = "iwp" /\ b = 4 /\ Len(Work) # 1
    /\ IF Len(Work) < 4
       THEN /\ pc' = "aborted"
            /\ err' = "IndexError"
            /\ Work' = <<>>
            /\ UNCHANGED <<merged, printed>>
       ELSE LET r == iwp2_pass(Work)
            IN  /\ merged' = [k \in 1..Len(r.used) |->
                                <<r.used[k].level, r.used[k].index, Shape2(r.used[k].C)>>]
                /\ Work' = r.Nodes
                /\ IF r.ok
                   THEN /\ pc' = "iwp"
                        /\ UNCHANGED <<err, printed>>
                   ELSE /\ pc' = "aborted"
                        /\ err' = "ValueError"
                        /\ printed' = iwp2_report(r.used)
    /\ UNCHANGED <<b, level, S, costf, Nodes, calls, Result, variant, R, cp>>

\* iwp2, line 164.
Iwp2Return ==
    /\ pc = "iwp" /\ b = 4 /\ Len(Work) = 1
    /\ R' = Work[1].C
    /\ pc' = "done"
    /\ UNCHANGED <<b, level, S, costf, Nodes, calls, Result, variant, Work, merged, printed, err, cp>>

Next ==
    \/ WpCollect \/ Wp2Collect
    \/ WpMark \/ Wp2Mark
    \/ WpTraverse \/ Wp2Traverse
    \/ IwpCall \/ Iwp2Call
    \/ IwpStep \/ Iwp2Step
    \/ IwpReturn \/ Iwp2Return

Spec == Init /\ [][Next]_vars

\* ------------------------------------------------- cost functions alone --
\* cost_threshold(C, theta)(C) and cost_shannon(C) applied to arrays whose
\* entries are 0 or a signed power of two, 2^-FracBits .. 2^(MaxExp-FracBits).
DyadicVals ==
    {0} \cup {Pow(2, e) : e \in 0..MaxExp} \cup {-Pow(2, e) : e \in 0..MaxExp}

Arrays == UNION {[1..n -> DyadicVals] : n \in 0..MaxLen}

InitCost ==
    /\ b = 2 /\ level = 1
    /\ S \in Arrays
    /\ costf \in {[kind |-> "threshold", theta |-> t] : t \in 0..MaxTheta}
                 \cup {[kind |-> "shannon", theta |-> 0]}
    /\ pc = "cost"
    /\ Idle

CostCall ==
    /\ pc = "cost"
    /\ cp' = cost(costf, S)
    /\ pc' = "costed"
    /\ UNCHANGED <<b, level, S, costf, Nodes, calls, Result, variant, Work,
                   merged, printed, err, R>>

NextCost == CostCall

SpecCost == InitCost /\ [][NextCost]_vars

\* =========================================================================
\* Properties
\* =========================================================================
\* The cost of a node under the active cost function, from its array.
NodeCost(n) == IF b = 2 THEN cost(costf, n.C) ELSE costf2(costf, n.C)

At(l, i) == Nodes[l + 1][i + 1]

TraverseFailed == pc = "aborted" /\ variant = "none"

TreeCoords ==
    {c \in (0..(level - 1)) \X (0..(Pow(b, level) - 1)) : c[2] < Pow(b, c[1] + 1)}

\* The nodes on the path from the level-0 node down to node i of the
\* deepest level; with the signal itself (level -1) when top = -1.
PathTo(i, top) == {<<l, i \div Pow(b, level - 1 - l)>> : l \in top..(level - 1)}

IsTreeCut(X, top) ==
    \A i \in 0..(Pow(b, level) - 1) : Cardinality(X \cap PathTo(i, top)) = 1

SeqCoords(s) == {Coord(s[k]) : k \in 1..Len(s)}

\* <<total cost, number of nodes>> of every tree cut of the subtree of node
\* (l, i): the node alone, or one cut of each child's subtree put together.
Plus(A, B) == {<<x[1] + y[1], x[2] + y[2]>> : x \in A, y \in B}

RECURSIVE Profiles(_, _)
RECURSIVE KidsProfiles(_, _, _)
Profiles(l, i) ==
    {<<NodeCost(At(l, i)), 1>>}
    \cup (IF l = level - 1 THEN {} ELSE KidsProfiles(l, i, 0))

KidsProfiles(l, i, k) ==
    IF k = b - 1 THEN Profiles(l + 1, b * i + k)
    ELSE Plus(Profiles(l + 1, b * i + k), KidsProfiles(l, i, k + 1))

ForestProfiles == KidsProfiles(-1, 0, 0)

ResultCost == SumSeq([k \in 1..Len(Result) |-> NodeCost(Result[k])])

ResultLevels == {Result[k].level : k \in 1..Len(Result)}

\* C1: after mark, the nodes traverse collects from the level-0 nodes cost
\* no more in total than any tree cut of the full tree.
C1_MinimalCost ==
    pc = "returned" =>
        /\ IsTreeCut(SeqCoords(Result), 0)
        /\ \A p \in ForestProfiles : ResultCost <= p[1]

\* A basis of nodes from several levels that is strictly cheaper than the
\* level-0 nodes and than the deepest level.
C1_Witness ==
    /\ pc = "returned"
    /\ Cardinality(ResultLevels) >= 2
    /\ \E p \in ForestProfiles : p[2] = b /\ ResultCost < p[1]
    /\ \E p \in ForestProfiles : p[2] = Pow(b, level) /\ ResultCost < p[1]

\* C2: after mark, the traverse results of the level-0 nodes form a tree
\* cut: every path from a level-0 node to a node of the deepest level holds
\* exactly one of them, none appears twice, and traverse never indexes
\* below the deepest level.
C2_TreeCut ==
    /\ ~TraverseFailed
    /\ pc = "returned" =>
        /\ \A k \in 1..Len(Result) :
              /\ Coord(Result[k]) \in TreeCoords
              /\ Result[k] = At(Result[k].level, Result[k].index)
        /\ Cardinality(SeqCoords(Result)) = Len(Result)
        /\ IsTreeCut(SeqCoords(Result), 0)

C2_Witness ==
    /\ pc = "returned"
    /\ level >= 3
    /\ {0, level - 1} \subseteq ResultLevels

\* C4: after mark, best <= cost at every node, best = cost at the deepest
\* level, and best = min(cost, sum of the children's best) elsewhere; cost
\* is the node's own cost.
C4_BestBound ==
    pc = "marked" =>
        \A c \in TreeCoords :
            LET n  == At(c[1], c[2])
                cc == SumSeq([k \in 1..b |-> At(c[1] + 1, b * c[2] + k - 1).best])
            IN  /\ n.cost = NodeCost(n)
                /\ n.best <= n.cost
                /\ c[1] = level - 1 => n.best = n.cost
                /\ c[1] < level - 1 =>
                      n.best = (IF n.cost <= cc THEN n.cost ELSE cc)

\* A marked tree with a node whose children are cheaper than it, and one
\* whose children are dearer.
C4_Witness ==
    /\ pc = "marked"
    /\ \E c \in TreeCoords : At(c[1], c[2]).best < At(c[1], c[2]).cost
    /\ \E c \in TreeCoords :
          /\ c[1] < level - 1
          /\ At(c[1], c[2]).cost
               < SumSeq([k \in 1..b |-> At(c[1] + 1, b * c[2] + k - 1).best])

\* C5: after mark, the best of the level-0 nodes add up to the cost of the
\* nodes the traversals return.
C5_RootBestIsResultCost ==
    pc = "returned" =>
        SumSeq([k \in 1..b |-> At(0, k - 1).best])
          = SumSeq([k \in 1..Len(Result) |-> Result[k].cost])

C5_Witness ==
    /\ pc = "returned"
    /\ Cardinality(ResultLevels) >= 2
    /\ SumSeq([k \in 1..b |-> At(0, k - 1).best])
         < SumSeq([k \in 1..b |-> At(0, k - 1).cost])

\* C6: a node whose cost equals the sum of its children's best gets its own
\* cost as best and is selected without descending whenever traverse
\* reaches it; the returned cut has the fewest nodes of all tree cuts of
\* minimal cost; when every node costs 0 the result is the level-0 nodes.
Reached(c) ==
    \A l \in 0..(c[1] - 1) :
        LET a == At(l, c[2] \div Pow(b, c[1] - l)) IN a.best # a.cost

Tied(c) ==
    /\ c[1] < level - 1
    /\ At(c[1], c[2]).cost
         = SumSeq([k \in 1..b |-> At(c[1] + 1, b * c[2] + k - 1).best])

C6_TieBreak ==
    pc = "returned" =>
        /\ \A c \in TreeCoords :
              Tied(c) =>
                 /\ At(c[1], c[2]).best = At(c[1], c[2]).cost
                 /\ Reached(c) => c \in SeqCoords(Result)
        /\ \A p \in ForestProfiles : p[1] = ResultCost => Len(Result) <= p[2]
        /\ (\A c \in TreeCoords : NodeCost(At(c[1], c[2])) = 0) =>
              SeqCoords(Result) = {<<0, k>> : k \in 0..(b - 1)}

\* A tied node below level 0 that traverse reaches and keeps, although a
\* larger cut costs the same.
C6_Witness ==
    /\ pc = "returned"
    /\ \E c \in TreeCoords : c[1] >= 1 /\ Tied(c) /\ Reached(c)
    /\ \E p \in ForestProfiles : p[1] = ResultCost /\ p[2] > Len(Result)

\* C3: iwp / iwp2 applied to the basis wp / wp2 returned gives back the
\* signal, whatever the cost function, and does not abort on the way.
C3_RoundTrip ==
    variant = "basis" =>
        /\ pc # "aborted"
        /\ pc = "done" => R = S

\* A round trip through a basis of several levels of a signal that is not
\* constant.
C3_Witness ==
    /\ pc = "done" /\ variant = "basis"
    /\ Cardinality(ResultLevels) >= 2
    /\ R = S
    /\ \E x \in 1..Len(Result) : \E y \in 1..Len(Result) :
          /\ Result[x].level = Result[y].level
          /\ Result[x].C # Result[y].C

\* C7 as claimed: both built-in cost functions are non-negative on every
\* array, entries of absolute value above 1 included.
C7_NonNegative == pc = "costed" => cp >= 0

\* C7 amended: cost_threshold(theta) counts the entries of absolute value
\* above theta and is never negative; cost_shannon is the sum of
\* -c*c*log2(|c|) over the nonzero entries, which is non-negative when no
\* entry exceeds 1 in absolute value.
ShannonTerm(x) ==
    IF x = 0 THEN 0
    ELSE LET e == CHOOSE k \in 0..MaxExp : Pow(2, k) = Abs(x)
         IN  (FracBits - e) * Pow(4, e)

One == Pow(2, FracBits)

C7_CostValues ==
    pc = "costed" =>
        /\ costf.kind = "threshold" =>
              /\ cp = Cardinality({i \in DOMAIN S : Abs(S[i]) > costf.theta})
              /\ cp >= 0
        /\ costf.kind = "shannon" =>
              /\ cp = SumSeq([i \in DOMAIN S |-> ShannonTerm(S[i])])
              /\ (\A i \in DOMAIN S : Abs(S[i]) <= One) => cp >= 0

\* cost_shannon of an array with a zero entry and an entry strictly between
\* 0 and 1 in absolute value.
C7_Witness ==
    /\ pc = "costed" /\ costf.kind = "shannon"
    /\ \E i \in DOMAIN S : S[i] = 0
    /\ \E i \in DOMAIN S : S[i] # 0 /\ Abs(S[i]) < One
    /\ \A i \in DOMAIN S : Abs(S[i]) <= One
    /\ cp > 0

\* C8: when the inverse transform fails in iwp or iwp2, the routine aborts
\* without a result, after reporting level, index and shape of every node
\* of the failed merge.
C8_FailureReported ==
    err = "ValueError" =>
        /\ pc = "aborted"
        /\ R = <<>>
        /\ printed = merged

\* C9: given a tree cut, every pass of the loop of iwp / iwp2 hands the
\* inverse transform the b nodes b*p .. b*p+b-1 of the deepest level
\* present, in ascending index order, and puts (level-1, p) in their place;
\* the list stays a tree cut and gets shorter with every pass, until the one
\* node left has its array returned.
DeepestIn(s) == CHOOSE d \in {s[k].level : k \in 1..Len(s)} :
                    \A k \in 1..Len(s) : s[k].level <= d

C9_Pass ==
    (pc = "iwp" /\ variant = "basis") =>
        IF Len(Work) = 1
        THEN pc' = "done" /\ R' = Work[1].C /\ Work' = Work
        ELSE LET D == DeepestIn(Work)
                 p == merged'[1][2] \div b
                 used == {<<D, b * p + k>> : k \in 0..(b - 1)}
             IN  /\ pc' = "iwp"
                 /\ Len(merged') = b
                 /\ \A k \in 1..b :
                       merged'[k][1] = D /\ merged'[k][2] = b * p + k - 1
                 /\ used \subseteq SeqCoords(Work)
                 /\ SeqCoords(Work') = (SeqCoords(Work) \ used) \cup {<<D - 1, p>>}
                 /\ Len(Work') = Len(Work) - (b - 1)
                 /\ Len(Work') = 1 \/ Len(Work') >= b
                 /\ IsTreeCut(SeqCoords(Work'), -1)

C9_MergeDiscipline == [][C9_Pass]_vars

\* A merge on a level below 0 that leaves nodes of three levels behind.
C9_Witness ==
    /\ pc = "iwp" /\ variant = "basis"
    /\ merged # <<>> /\ merged[1][1] >= 2
    /\ Cardinality({Work[k].level : k \in 1..Len(Work)}) >= 3

\* C10: collect returns level levels; level l holds b^(l+1) nodes, the node
\* at position i of level l carries level l and index i, the sub-bands of
\* node (l, p) are stored in order at (l+1, b*p) .. (l+1, b*p+b-1), and the
\* forward transform is applied once to the signal, once to every node
\* above the deepest level and to nothing else.
Bands(X) == IF b = 2 THEN dwt(X) ELSE dwt2(X)

C10_CollectShape ==
    pc = "collected" =>
        /\ Len(Nodes) = level
        /\ \A l \in 0..(level - 1) :
              /\ Len(Nodes[l + 1]) = Pow(b, l + 1)
              /\ \A i \in 0..(Pow(b, l + 1) - 1) :
                    /\ At(l, i).level = l
                    /\ At(l, i).index = i
                    /\ At(l, i).C = (IF l = 0 THEN Bands(S)[i + 1]
                                     ELSE Bands(At(l - 1, i \div b).C)[(i % b) + 1])
        /\ Len(calls) = Cardinality({calls[k] : k \in 1..Len(calls)})
        /\ {calls[k] : k \in 1..Len(calls)}
             = {<<-1, 0>>} \cup {c \in TreeCoords : c[1] <= level - 2}

\* A collected tree of at least three levels whose sub-bands differ.
C10_Witness ==
    /\ pc = "collected"
    /\ level >= 3
    /\ \E i \in 0..(Pow(b, level) - 2) :
          At(level - 1, i).C # At(level - 1, i + 1).C

====
